---- MODULE Spec2Model ----
(***************************************************************************)
(* A model of app/parse.py: the scraper's session (get_all_products), the  *)
(* page pipeline (ElectronicProductParser.parse_page and its handlers) and *)
(* the serializer (create_csv_file).                                       *)
(*                                                                         *)
(* Text is a sequence of one-character strings, so that slicing, splitting *)
(* number parsing, number formatting and CSV quoting are computed.         *)
(***************************************************************************)
EXTENDS Integers, Sequences, FiniteSets, TLC

\* ------------------------------------------------------------------ bounds

\* Largest number of successful "load more" triggers a served page allows.
MaxTriggers == 2
\* Longest container list of a page given to a single parse_page call.
MaxItems == 3
\* Longest record list given directly to create_csv_file.
MaxRecords == 2
\* Number of parse_page calls a caller makes on one parser instance.
MaxCalls == 2

\* ------------------------------------------------------------- characters

CR == "\r"
LF == "\n"
QUOTE == "\""
COMMA == ","
SPACE == " "

DigitChars == <<"0", "1", "2", "3", "4", "5", "6", "7", "8", "9">>

IsDigit(c) == \E d \in 1..10 : DigitChars[d] = c

DigitVal(c) == (CHOOSE d \in 1..10 : DigitChars[d] = c) - 1

AllDigits(s) == \A i \in 1..Len(s) : IsDigit(s[i])

RECURSIVE DigitsVal(_)
\* the number a string of decimal digits denotes
DigitsVal(s) ==
    IF s = <<>> THEN 0
    ELSE 10 * DigitsVal(SubSeq(s, 1, Len(s) - 1)) + DigitVal(s[Len(s)])

RECURSIVE Pow10(_)
Pow10(e) == IF e = 0 THEN 1 ELSE 10 * Pow10(e - 1)

\* ------------------------------------------------ Python text conversions

RECURSIVE FormatInt(_)
\* str(n) for a non-negative int
FormatInt(n) ==
    IF n < 10 THEN <<DigitChars[n + 1]>>
    ELSE FormatInt(n \div 10) \o <<DigitChars[(n % 10) + 1]>>

\* int(s) for a token: a non-empty run of decimal digits, else ValueError
IntOf(s) ==
    IF s # <<>> /\ AllDigits(s)
    THEN [ok |-> TRUE, val |-> DigitsVal(s)]
    ELSE [ok |-> FALSE, val |-> 0]

RECURSIVE NormFloat(_, _)
\* a decimal m / 10^e with no trailing zero in the fraction
NormFloat(m, e) ==
    IF e > 0 /\ m % 10 = 0 THEN NormFloat(m \div 10, e - 1)
    ELSE [m |-> m, e |-> e]

\* index of the first "." of s, or 0
DotAt(s) ==
    IF \E i \in 1..Len(s) : s[i] = "."
    THEN CHOOSE i \in 1..Len(s) : s[i] = "." /\ \A j \in 1..(i - 1) : s[j] # "."
    ELSE 0

\* float(s) for a plain decimal literal (digits, at most one "."), else
\* ValueError; the value is kept exactly, as m / 10^e
FloatOf(s) ==
    LET d == DotAt(s)
        ip == IF d = 0 THEN s ELSE SubSeq(s, 1, d - 1)
        fp == IF d = 0 THEN <<>> ELSE SubSeq(s, d + 1, Len(s))
    IN  IF AllDigits(ip) /\ AllDigits(fp) /\ Len(ip) + Len(fp) > 0
        THEN [ok |-> TRUE, val |-> NormFloat(DigitsVal(ip \o fp), Len(fp))]
        ELSE [ok |-> FALSE, val |-> [m |-> 0, e |-> 0]]

RECURSIVE ZeroPad(_, _)
ZeroPad(s, n) == IF Len(s) >= n THEN s ELSE ZeroPad(<<"0">> \o s, n)

\* str(x) for a float: the shortest decimal that reads back as x, which
\* always shows a fractional part
FormatFloat(x) ==
    LET p == Pow10(x.e)
    IN  FormatInt(x.m \div p) \o <<".">> \o
        (IF x.e = 0 THEN <<"0">> ELSE ZeroPad(FormatInt(x.m % p), x.e))

IsSpace(c) == c \in {SPACE, LF, CR, "\t"}

RECURSIVE SkipSpaces(_)
SkipSpaces(s) ==
    IF s # <<>> /\ IsSpace(s[1]) THEN SkipSpaces(Tail(s)) ELSE s

RECURSIVE TakeToken(_)
TakeToken(s) ==
    IF s = <<>> \/ IsSpace(s[1]) THEN <<>>
    ELSE <<s[1]>> \o TakeToken(Tail(s))

\* s.split(): the whitespace-delimited tokens of s
RECURSIVE Split(_)
Split(s) ==
    LET t == SkipSpaces(s)
        tok == TakeToken(t)
    IN  IF t = <<>> THEN <<>>
        ELSE <<tok>> \o Split(SubSeq(t, Len(tok) + 1, Len(t)))

\* -------------------------------------------------------------- csv.writer

\* the excel dialect quotes a field that holds the delimiter, the quote
\* character or a character of the line terminator
NeedsQuote(s) == \E i \in 1..Len(s) : s[i] \in {COMMA, QUOTE, CR, LF}

RECURSIVE DoubleQuotes(_)
DoubleQuotes(s) ==
    IF s = <<>> THEN <<>>
    ELSE (IF s[1] = QUOTE THEN <<QUOTE, QUOTE>> ELSE <<s[1]>>)
         \o DoubleQuotes(Tail(s))

\* a writer that never quotes
NoQuoteField(s) == s

QuoteField(s) ==
    IF NeedsQuote(s) THEN <<QUOTE>> \o DoubleQuotes(s) \o <<QUOTE>> ELSE s

RECURSIVE JoinFields(_)
JoinFields(fs) ==
    IF fs = <<>> THEN <<>>
    ELSE IF Len(fs) = 1 THEN QuoteField(fs[1])
    ELSE QuoteField(fs[1]) \o <<COMMA>> \o JoinFields(Tail(fs))

\* writer.writerow(fields): the text of one row, fields already str()-ed
WriteRow(fs) == JoinFields(fs) \o <<CR, LF>>

HeaderRow ==
    << <<"t", "i", "t", "l", "e">>,
       <<"d", "e", "s", "c", "r", "i", "p", "t", "i", "o", "n">>,
       <<"p", "r", "i", "c", "e">>,
       <<"r", "a", "t", "i", "n", "g">>,
       <<"n", "u", "m", "_", "o", "f", "_", "r", "e", "v", "i", "e", "w", "s">> >>

\* the five fields of a product as csv.writer renders them
ProductRow(p) ==
    <<p.title, p.description, FormatFloat(p.price), FormatInt(p.rating),
      FormatInt(p.num_of_reviews)>>

\* ------------------------------------------------------ program constants

HOME_URL == "https://webscraper.io/test-sites/e-commerce/more/"
COMPUTERS_URL == "https://webscraper.io/test-sites/e-commerce/more/computers"
LAPTOPS_URL == "https://webscraper.io/test-sites/e-commerce/more/computers/laptops"
TABLETS_URL == "https://webscraper.io/test-sites/e-commerce/more/computers/tablets"
PHONES_URL == "https://webscraper.io/test-sites/e-commerce/more/phones"
TOUCH_URL == "https://webscraper.io/test-sites/e-commerce/more/phones/touch"

\* the (category, url, file_name) triples get_all_products iterates
Categories ==
    << [category |-> "Home products", url |-> HOME_URL, file_name |-> "home.csv"],
       [category |-> "Computer products", url |-> COMPUTERS_URL, file_name |-> "computers.csv"],
       [category |-> "Laptop products", url |-> LAPTOPS_URL, file_name |-> "laptops.csv"],
       [category |-> "Tablet products", url |-> TABLETS_URL, file_name |-> "tablets.csv"],
       [category |-> "Phone products", url |-> PHONES_URL, file_name |-> "phones.csv"],
       [category |-> "Touch products", url |-> TOUCH_URL, file_name |-> "touch.csv"] >>

FileNames == {Categories[i].file_name : i \in 1..Len(Categories)}

\* ------------------------------------------------------- the served pages

\* A product container (an element of class product-wrapper): for each
\* sub-element lookup the matches it holds. title is the title attribute of
\* the .title element, description/price/reviews the text of theirs, stars
\* the number of .ws-icon-star elements.
AsusX ==
    [title |-> << <<"A", "s", "u", "s", " ", "X">> >>,
     description |-> << <<"1", "5", "i", "n">> >>,
     price |-> << <<"$", "2", "9", "9", ".", "0", "0">> >>,
     stars |-> 4,
     reviews |-> << <<"1", "2", " ", "r", "e", "v", "i", "e", "w", "s">> >> ]

\* well-formed, with text the serializer has to quote
Tricky ==
    [title |-> << <<"T", ",", "1", "\"">> >>,
     description |-> << <<"a", "\n", "b">> >>,
     price |-> << <<"$", "1", ".", "5", "0">> >>,
     stars |-> 0,
     reviews |-> << <<"0", " ", "r", "e", "v", "i", "e", "w", "s">> >> ]

\* no .price element
NoPrice ==
    [title |-> << <<"N">> >>,
     description |-> << <<>> >>,
     price |-> << >>,
     stars |-> 1,
     reviews |-> << <<"3", " ", "r", "e", "v", "i", "e", "w", "s">> >> ]

\* review text without a leading integer
BadReviews ==
    [title |-> << <<"B">> >>,
     description |-> << <<"b">> >>,
     price |-> << <<"$", "2", "0">> >>,
     stars |-> 5,
     reviews |-> << <<"n", "o", " ", "r", "e", "v", "i", "e", "w", "s">> >> ]

RichPool == {AsusX, Tricky, NoPrice, BadReviews}

SeqsUpTo(S, n) == UNION {[1..k -> S] : k \in 0..n}

\* A page as the browser shows it after driver.get. cookie: the
\* acceptCookies element is absent, present, or present but "blocked" (its
\* click raises ElementClickInterceptedException). The "load more" control
\* accepts N triggers, each revealing one more container, and after them is
\* "hidden" (found, not displayed), "absent" (not found) or "intercepted"
\* (found and displayed, its click raises). left: triggers still accepted.
PagesOf(itemLists) ==
    {[cookie |-> c, items |-> its, N |-> n, left |-> n, moreEnd |-> m] :
        c \in {"absent", "present", "blocked"}, its \in itemLists,
        n \in 0..MaxTriggers, m \in {"hidden", "absent", "intercepted"}}

\* The container lists of the pages served in a six-category run and to
\* repeated calls: short ones, since every category multiplies the runs;
\* the longer lists are served to the single call (RichPages).
SiteItemLists == {<<>>, <<AsusX>>, <<NoPrice>>, <<AsusX, NoPrice>>}

SitePages == PagesOf(SiteItemLists)
RichPages == PagesOf(SeqsUpTo(RichPool, MaxItems))

BlankPage ==
    [cookie |-> "absent", items |-> <<>>, N |-> 0, left |-> 0, moreEnd |-> "absent"]

Max(a, b) == IF a < b THEN b ELSE a

\* the containers the page exposes now: all but those a remaining trigger
\* has still to reveal
Exposed(d) == SubSeq(d.items, 1, Max(0, Len(d.items) - d.left))

ControlFound(d) == d.left > 0 \/ d.moreEnd # "absent"
ControlDisplayed(d) == d.left > 0 \/ d.moreEnd = "intercepted"

\* ------------------------------------------------------------- extraction

Ok(v) == [err |-> "none", val |-> v]
Err(e) == [err |-> e, val |-> <<>>]

get_title(item) ==
    IF item.title = <<>> THEN Err("NoSuchElementException")
    ELSE Ok(item.title[1])

get_description(item) ==
    IF item.description = <<>> THEN Err("NoSuchElementException")
    ELSE Ok(item.description[1])

\* the slice taken one character too far
get_price_slice2(item) ==
    IF item.price = <<>> THEN Err("NoSuchElementException")
    ELSE LET f == FloatOf(SubSeq(item.price[1], 3, Len(item.price[1])))
         IN  IF f.ok THEN Ok(f.val) ELSE Err("ValueError")

get_price(item) ==
    IF item.price = <<>> THEN Err("NoSuchElementException")
    ELSE LET f == FloatOf(SubSeq(item.price[1], 2, Len(item.price[1])))
         IN  IF f.ok THEN Ok(f.val) ELSE Err("ValueError")

get_rating(item) == Ok(item.stars)

get_num_of_reviews(item) ==
    IF item.reviews = <<>> THEN Err("NoSuchElementException")
    ELSE LET toks == Split(item.reviews[1])
         IN  IF toks = <<>> THEN Err("IndexError")
             ELSE IF IntOf(toks[1]).ok THEN Ok(IntOf(toks[1]).val)
             ELSE Err("ValueError")

Getters ==
    {"get_title", "get_description", "get_price", "get_rating", "get_num_of_reviews"}

\* one iteration of parse_page's loop body: the five getters in order, the
\* first error raised, else the Product
ExtractProduct(item) ==
    LET t == get_title(item)
        d == get_description(item)
        p == get_price(item)
        r == get_rating(item)
        n == get_num_of_reviews(item)
    IN  IF t.err # "none" THEN [err |-> t.err, in |-> "get_title", val |-> <<>>]
        ELSE IF d.err # "none" THEN [err |-> d.err, in |-> "get_description", val |-> <<>>]
        ELSE IF p.err # "none" THEN [err |-> p.err, in |-> "get_price", val |-> <<>>]
        ELSE IF r.err # "none" THEN [err |-> r.err, in |-> "get_rating", val |-> <<>>]
        ELSE IF n.err # "none" THEN [err |-> n.err, in |-> "get_num_of_reviews", val |-> <<>>]
        ELSE [err |-> "none", in |-> "none",
              val |-> [title |-> t.val, description |-> d.val, price |-> p.val,
                       rating |-> r.val, num_of_reviews |-> n.val]]

\* the loop body's outcome for each container a page can hold, worked out
\* once
Extracted == [c \in RichPool |-> ExtractProduct(c)]

\* ------------------------------------------------------------------ state

VARIABLES
    pc,                \* the statement the (single) thread is at
    drv,               \* the browser session: state and acquire/quit counts
    cat,               \* get_all_products' loop position in Categories
    calls,             \* parse_page calls made so far
    url, file_name,    \* parse_page's arguments
    cookies_accepted,  \* ElectronicProductParser.cookies_accepted
    dom,               \* the page the browser shows
    items,             \* parse_page's items
    list_of_products,  \* parse_page's list_of_products
    product_i,         \* create_csv_file's position in list_of_products
    ret,               \* parse_page's return value
    files,             \* the output files
    error,             \* the exception propagating, if any
    clicks,            \* clicks issued on the acceptCookies element
    pager,             \* handle_pagination's iterations and clicks, this call
    log                \* the steps begun, in order

vars ==
    <<pc, drv, cat, calls, url, file_name, cookies_accepted, dom, items,
      list_of_products, product_i, ret, files, error, clicks, pager, log>>

\* type: the exception class; in: the operation that raised it; call: the
\* parse_page call it was raised in
NoError == [type |-> "none", in |-> "none", call |-> 0]
NoFile == [exists |-> FALSE, data |-> <<>>]
\* what an earlier run left behind
StaleFile == [exists |-> TRUE, data |-> <<"o", "l", "d", CR, LF>>]

NoSession == [state |-> "none", acquires |-> 0, quits |-> 0]
OpenSession == [state |-> "open", acquires |-> 1, quits |-> 0]

\* the program's variables before anything has run
Fresh ==
    /\ cat = 0
    /\ cookies_accepted = FALSE
    /\ dom = BlankPage
    /\ items = <<>>
    /\ product_i = 0
    /\ ret = <<>>
    /\ error = NoError
    /\ clicks = 0
    /\ pager = [iters |-> 0, clicks |-> 0]
    /\ log = <<>>

\* the output directory is empty or holds an earlier run's files
InitFiles == \E f \in {NoFile, StaleFile} : files = [n \in FileNames |-> f]

Raise(type, where) ==
    /\ error' = [type |-> type, in |-> where, call |-> calls]
    /\ pc' = "raise"

Logged(step, what) == log' = Append(log, <<step, what>>)

\* --------------------------------------------------------------- parse_page

\* driver.get(url) returns: the browser shows one of `pages`
DriverGet(pages) ==
    /\ pc = "get"
    /\ \E page \in pages : dom' = page
    /\ pager' = [iters |-> 0, clicks |-> 0]
    /\ Logged("load", url)
    /\ pc' = "consent"
    /\ UNCHANGED <<drv, cat, calls, url, file_name, cookies_accepted, items,
                   list_of_products, product_i, ret, files, error, clicks>>

\* driver.get(url) raises (navigation failure)
DriverGetFails ==
    /\ pc = "get"
    /\ Logged("load", url)
    /\ Raise("WebDriverException", "driver.get")
    /\ UNCHANGED <<drv, cat, calls, url, file_name, cookies_accepted, dom, items,
                   list_of_products, product_i, ret, files, clicks, pager>>

\* consent handling run on every call, the flag not consulted
ParsePageConsentAlways ==
    /\ pc = "consent"
    /\ pc' = "ck_find"
    /\ UNCHANGED <<drv, cat, calls, url, file_name, cookies_accepted, dom, items,
                   list_of_products, product_i, ret, files, error, clicks, pager,
                   log>>

\* if not self.cookies_accepted: self.check_accept_cookies()
ParsePageConsent ==
    /\ pc = "consent"
    /\ pc' = IF ~cookies_accepted THEN "ck_find" ELSE "pg_find"
    /\ UNCHANGED <<drv, cat, calls, url, file_name, cookies_accepted, dom, items,
                   list_of_products, product_i, ret, files, error, clicks, pager,
                   log>>

\* the lookup without its except clause
CkFindNoCatch ==
    /\ pc = "ck_find"
    /\ Logged("consent", url)
    /\ IF dom.cookie = "absent"
       THEN Raise("NoSuchElementException", "check_accept_cookies")
       ELSE /\ pc' = "ck_click"
            /\ UNCHANGED error
    /\ UNCHANGED <<drv, cat, calls, url, file_name, cookies_accepted, dom, items,
                   list_of_products, product_i, ret, files, clicks, pager>>

\* check_accept_cookies: find_element; NoSuchElementException is caught, and
\* the flag is set after the try statement
CkFind ==
    /\ pc = "ck_find"
    /\ Logged("consent", url)
    /\ IF dom.cookie = "absent"
       THEN /\ cookies_accepted' = TRUE
            /\ pc' = "pg_find"
       ELSE /\ pc' = "ck_click"
            /\ UNCHANGED cookies_accepted
    /\ UNCHANGED <<drv, cat, calls, url, file_name, dom, items, list_of_products,
                   product_i, ret, files, error, clicks, pager>>

\* check_accept_cookies: cookies_accept.click(); an exception of click is
\* not a NoSuchElementException and leaves the method before the flag is set
CkClick ==
    /\ pc = "ck_click"
    /\ clicks' = clicks + 1
    /\ IF dom.cookie = "blocked"
       THEN /\ Raise("ElementClickInterceptedException", "check_accept_cookies")
            /\ UNCHANGED <<cookies_accepted, dom>>
       ELSE /\ dom' = [dom EXCEPT !.cookie = "absent"]
            /\ cookies_accepted' = TRUE
            /\ pc' = "pg_find"
            /\ UNCHANGED error
    /\ UNCHANGED <<drv, cat, calls, url, file_name, items, list_of_products,
                   product_i, ret, files, pager, log>>

\* handle_pagination: find_element at the top of an iteration;
\* NoSuchElementException breaks the loop
PgFind ==
    /\ pc = "pg_find"
    /\ pager' = [pager EXCEPT !.iters = @ + 1]
    /\ log' = IF pager.iters = 0 THEN Append(log, <<"pagination", url>>) ELSE log
    /\ pc' = IF ControlFound(dom) THEN "pg_displayed" ELSE "pg_sleep"
    /\ UNCHANGED <<drv, cat, calls, url, file_name, cookies_accepted, dom, items,
                   list_of_products, product_i, ret, files, error, clicks>>

\* the trigger issued whether or not the control is displayed
PgIsDisplayedAlways ==
    /\ pc = "pg_displayed"
    /\ pc' = "pg_click"
    /\ UNCHANGED <<drv, cat, calls, url, file_name, cookies_accepted, dom, items,
                   list_of_products, product_i, ret, files, error, clicks, pager,
                   log>>

\* the branches of the visibility test swapped
PgIsDisplayedInverted ==
    /\ pc = "pg_displayed"
    /\ pc' = IF ControlDisplayed(dom) THEN "pg_sleep" ELSE "pg_click"
    /\ UNCHANGED <<drv, cat, calls, url, file_name, cookies_accepted, dom, items,
                   list_of_products, product_i, ret, files, error, clicks, pager,
                   log>>

\* handle_pagination: if pagination_button.is_displayed() ... else break
PgIsDisplayed ==
    /\ pc = "pg_displayed"
    /\ pc' = IF ControlDisplayed(dom) THEN "pg_click" ELSE "pg_sleep"
    /\ UNCHANGED <<drv, cat, calls, url, file_name, cookies_accepted, dom, items,
                   list_of_products, product_i, ret, files, error, clicks, pager,
                   log>>

\* handle_pagination: pagination_button.click(); time.sleep(0.1). A click the
\* page accepts reveals more containers; a click on a control that is not
\* displayed or is covered raises
PgClick ==
    /\ pc = "pg_click"
    /\ pager' = [pager EXCEPT !.clicks = @ + 1]
    /\ IF dom.left > 0
       THEN /\ dom' = [dom EXCEPT !.left = @ - 1]
            /\ pc' = "pg_find"
            /\ UNCHANGED error
       ELSE /\ Raise(IF dom.moreEnd = "intercepted"
                     THEN "ElementClickInterceptedException"
                     ELSE "ElementNotInteractableException", "handle_pagination")
            /\ UNCHANGED dom
    /\ UNCHANGED <<drv, cat, calls, url, file_name, cookies_accepted, items,
                   list_of_products, product_i, ret, files, clicks, log>>

\* handle_pagination: time.sleep(1) after the loop, and return
PgSleep ==
    /\ pc = "pg_sleep"
    /\ pc' = "find_items"
    /\ UNCHANGED <<drv, cat, calls, url, file_name, cookies_accepted, dom, items,
                   list_of_products, product_i, ret, files, error, clicks, pager,
                   log>>

\* the output file opened before the containers are read
FindItemsOpenFirst ==
    /\ pc = "find_items"
    /\ items' = Exposed(dom)
    /\ list_of_products' = <<>>
    /\ files' = [files EXCEPT ![file_name] = [exists |-> TRUE, data |-> <<>>]]
    /\ Logged("extraction", url)
    /\ pc' = IF Exposed(dom) = <<>> THEN "csv_open" ELSE "extract"
    /\ UNCHANGED <<drv, cat, calls, url, file_name, cookies_accepted, dom,
                   product_i, ret, error, clicks, pager>>

\* items = driver.find_elements(...); list_of_products = []
FindItems ==
    /\ pc = "find_items"
    /\ items' = Exposed(dom)
    /\ list_of_products' = <<>>
    /\ Logged("extraction", url)
    /\ pc' = IF Exposed(dom) = <<>> THEN "csv_open" ELSE "extract"
    /\ UNCHANGED <<drv, cat, calls, url, file_name, cookies_accepted, dom,
                   product_i, ret, files, error, clicks, pager>>

\* one iteration of `for item in items`
ExtractItem ==
    /\ pc = "extract"
    /\ LET r == Extracted[items[Len(list_of_products) + 1]]
       IN  IF r.err # "none"
           THEN /\ Raise(r.err, r.in)
                /\ UNCHANGED list_of_products
           ELSE /\ list_of_products' = Append(list_of_products, r.val)
                /\ pc' = IF Len(list_of_products) + 1 = Len(items)
                         THEN "csv_open" ELSE "extract"
                /\ UNCHANGED error
    /\ UNCHANGED <<drv, cat, calls, url, file_name, cookies_accepted, dom, items,
                   product_i, ret, files, clicks, pager, log>>

\* ---------------------------------------------------------- create_csv_file

\* open(file_name, "w", newline=""): the file is created or truncated
CsvOpen ==
    /\ pc = "csv_open"
    /\ files' = [files EXCEPT ![file_name] = [exists |-> TRUE, data |-> <<>>]]
    /\ Logged("serialization", file_name)
    /\ pc' = "csv_header"
    /\ UNCHANGED <<drv, cat, calls, url, file_name, cookies_accepted, dom, items,
                   list_of_products, product_i, ret, error, clicks, pager>>

\* open raises (the file cannot be created)
CsvOpenFails ==
    /\ pc = "csv_open"
    /\ Logged("serialization", file_name)
    /\ Raise("OSError", "create_csv_file")
    /\ UNCHANGED <<drv, cat, calls, url, file_name, cookies_accepted, dom, items,
                   list_of_products, product_i, ret, files, clicks, pager>>

\* writer.writerow(["title", ...])
CsvHeader ==
    /\ pc = "csv_header"
    /\ files' = [files EXCEPT ![file_name].data = @ \o WriteRow(HeaderRow)]
    /\ product_i' = 0
    /\ pc' = IF list_of_products = <<>> THEN "csv_close" ELSE "csv_row"
    /\ UNCHANGED <<drv, cat, calls, url, file_name, cookies_accepted, dom, items,
                   list_of_products, ret, error, clicks, pager, log>>

\* one iteration of `for product in list_of_products`
CsvRow ==
    /\ pc = "csv_row"
    /\ files' = [files EXCEPT ![file_name].data =
                    @ \o WriteRow(ProductRow(list_of_products[product_i + 1]))]
    /\ product_i' = product_i + 1
    /\ pc' = IF product_i + 1 = Len(list_of_products) THEN "csv_close" ELSE "csv_row"
    /\ UNCHANGED <<drv, cat, calls, url, file_name, cookies_accepted, dom, items,
                   list_of_products, ret, error, clicks, pager, log>>

\* the with statement closes the file; parse_page returns list_of_products
CsvClose ==
    /\ pc = "csv_close"
    /\ ret' = list_of_products
    /\ Logged("written", file_name)
    /\ pc' = "return"
    /\ UNCHANGED <<drv, cat, calls, url, file_name, cookies_accepted, dom, items,
                   list_of_products, product_i, files, error, clicks, pager>>

\* the statements of parse_page after driver.get
PageSteps ==
    \/ ParsePageConsent
    \/ CkFind
    \/ CkClick
    \/ PgFind
    \/ PgIsDisplayed
    \/ PgClick
    \/ PgSleep
    \/ FindItems
    \/ ExtractItem
    \/ CsvOpen
    \/ CsvOpenFails
    \/ CsvHeader
    \/ CsvRow
    \/ CsvClose

\* --------------------------------------------------------- get_all_products

Init ==
    /\ pc = "start"
    /\ drv = NoSession
    /\ calls = 0
    /\ url = ""
    /\ file_name = ""
    /\ list_of_products = <<>>
    /\ Fresh
    /\ InitFiles

\* with webdriver.Chrome(options=options) as driver:
\*     parser = ElectronicProductParser(driver)
Acquire ==
    /\ pc = "start"
    /\ drv' = [state |-> "open", acquires |-> drv.acquires + 1, quits |-> drv.quits]
    /\ cookies_accepted' = FALSE
    /\ cat' = 1
    /\ pc' = "loop"
    /\ UNCHANGED <<calls, url, file_name, dom, items, list_of_products, product_i,
                   ret, files, error, clicks, pager, log>>

\* for category, url, file_name in [...]: print(category), then the call of
\* parser.parse_page(url, file_name)
PrintCategory ==
    /\ pc = "loop"
    /\ cat <= Len(Categories)
    /\ Logged("print", Categories[cat].category)
    /\ url' = Categories[cat].url
    /\ file_name' = Categories[cat].file_name
    /\ calls' = calls + 1
    /\ pc' = "get"
    /\ UNCHANGED <<drv, cat, cookies_accepted, dom, items, list_of_products,
                   product_i, ret, files, error, clicks, pager>>

\* parse_page returned: its result is dropped, the loop advances
ParseReturned ==
    /\ pc = "return"
    /\ cat' = cat + 1
    /\ items' = <<>>
    /\ list_of_products' = <<>>
    /\ product_i' = 0
    /\ ret' = <<>>
    /\ pc' = "loop"
    /\ UNCHANGED <<drv, calls, url, file_name, cookies_accepted, dom, files, error,
                   clicks, pager, log>>

\* the loop going on to the next category after a failed one
WithExitSwallow ==
    IF pc = "raise"
    THEN /\ cat' = cat + 1
         /\ pc' = "loop"
         /\ UNCHANGED <<drv, calls, url, file_name, cookies_accepted, dom, items,
                        list_of_products, product_i, ret, files, error, clicks,
                        pager, log>>
    ELSE /\ pc = "loop" /\ cat > Len(Categories)
         /\ drv' = [drv EXCEPT !.state = "closed", !.quits = @ + 1]
         /\ pc' = "done"
         /\ UNCHANGED <<cat, calls, url, file_name, cookies_accepted, dom, items,
                        list_of_products, product_i, ret, files, error, clicks,
                        pager, log>>

\* the driver quit at the end of the loop only, not on an exception
WithExitLeak ==
    /\ pc = "raise" \/ (pc = "loop" /\ cat > Len(Categories))
    /\ drv' = IF pc = "raise" THEN drv
              ELSE [drv EXCEPT !.state = "closed", !.quits = @ + 1]
    /\ pc' = "done"
    /\ UNCHANGED <<cat, calls, url, file_name, cookies_accepted, dom, items,
                   list_of_products, product_i, ret, files, error, clicks, pager,
                   log>>

\* the with statement is left, by the end of the loop or by an exception
\* passing through it: driver.quit()
WithExit ==
    /\ pc = "raise" \/ (pc = "loop" /\ cat > Len(Categories))
    /\ drv' = [drv EXCEPT !.state = "closed", !.quits = @ + 1]
    /\ pc' = "done"
    /\ UNCHANGED <<cat, calls, url, file_name, cookies_accepted, dom, items,
                   list_of_products, product_i, ret, files, error, clicks, pager,
                   log>>

Next ==
    \/ Acquire
    \/ PrintCategory
    \/ DriverGet(SitePages)
    \/ DriverGetFails
    \/ PageSteps
    \/ ParseReturned
    \/ WithExit

Spec == Init /\ [][Next]_vars

\* the thread is never suspended for good: a statement that can run does
FairSpec == Spec /\ WF_vars(Next)

\* ------------------------------------- repeated calls on one parser instance

\* A caller that holds one ElectronicProductParser on one open driver and
\* calls parse_page up to MaxCalls times, going on after a call that raised.
InitSession ==
    /\ pc = "idle"
    /\ drv = OpenSession
    /\ calls = 0
    /\ url = ""
    /\ file_name = ""
    /\ list_of_products = <<>>
    /\ Fresh
    /\ InitFiles

SessionTargets == {Categories[1], Categories[2]}

SessionCall ==
    /\ pc \in {"idle", "return", "raise"}
    /\ calls < MaxCalls
    /\ \E t \in SessionTargets :
        /\ url' = t.url
        /\ file_name' = t.file_name
    /\ calls' = calls + 1
    /\ error' = NoError
    /\ items' = <<>>
    /\ list_of_products' = <<>>
    /\ product_i' = 0
    /\ ret' = <<>>
    /\ pc' = "get"
    /\ UNCHANGED <<drv, cat, cookies_accepted, dom, files, clicks, pager, log>>

NextSession ==
    \/ SessionCall
    \/ DriverGet(SitePages)
    \/ DriverGetFails
    \/ PageSteps

SpecSession == InitSession /\ [][NextSession]_vars

\* ------------------------------------------------- one call of parse_page

InitPage ==
    /\ pc = "get"
    /\ drv = OpenSession
    /\ calls = 1
    /\ url = Categories[1].url
    /\ file_name = Categories[1].file_name
    /\ list_of_products = <<>>
    /\ Fresh
    /\ InitFiles

NextPage ==
    \/ DriverGet(RichPages)
    \/ DriverGetFails
    \/ PageSteps

SpecPage == InitPage /\ [][NextPage]_vars

\* ---------------------------------------------- one call of create_csv_file

\* a record no container of the pools yields: empty title, a description
\* with a quote and a carriage return, price 0.5
OddRecord ==
    [title |-> <<>>, description |-> <<QUOTE, "x", CR>>,
     price |-> [m |-> 5, e |-> 1], rating |-> 0, num_of_reviews |-> 120]

RecordPool == {ExtractProduct(AsusX).val, ExtractProduct(Tricky).val, OddRecord}

InitCsv ==
    /\ pc = "csv_open"
    /\ drv = NoSession
    /\ calls = 0
    /\ url = ""
    /\ file_name \in {Categories[1].file_name, Categories[2].file_name}
    /\ list_of_products \in SeqsUpTo(RecordPool, MaxRecords)
    /\ Fresh
    /\ InitFiles

NextCsv ==
    \/ CsvOpen
    \/ CsvOpenFails
    \/ CsvHeader
    \/ CsvRow
    \/ CsvClose

SpecCsv == InitCsv /\ [][NextCsv]_vars

\* ------------------------------------------------- reading a file back
\* (csv.reader over a file opened with newline="": what the claims about a
\* file's rows are stated with)

\* csv.reader's move on character c in state st: what c is (a character of
\* the field, a delimiter that is dropped, the end of a field, the end of a
\* record, a blank line) and the reader's next state
RdStep(st, c) ==
    LET eol == c \in {CR, LF}
        after == IF c = CR THEN "eat_crnl" ELSE "start_record"
        InField ==
            IF eol THEN [kind |-> "recend", next |-> after]
            ELSE IF c = COMMA THEN [kind |-> "fieldend", next |-> "start_field"]
            ELSE [kind |-> "char", next |-> "in_field"]
        StartField ==
            IF c = QUOTE /\ ~eol THEN [kind |-> "skip", next |-> "in_quoted"]
            ELSE InField
        StartRecord ==
            IF eol THEN [kind |-> "blank", next |-> after] ELSE StartField
    IN  CASE st = "eat_crnl" ->
               IF c = LF THEN [kind |-> "skip", next |-> "start_record"]
               ELSE StartRecord
          [] st = "start_record" -> StartRecord
          [] st = "start_field" -> StartField
          [] st = "in_field" -> InField
          [] st = "in_quoted" ->
               IF c = QUOTE THEN [kind |-> "skip", next |-> "quote_in_quoted"]
               ELSE [kind |-> "char", next |-> "in_quoted"]
          [] OTHER ->
               IF c = QUOTE THEN [kind |-> "char", next |-> "in_quoted"]
               ELSE InField

RECURSIVE RdScan(_, _, _, _)
\* the reader run over t[lo..hi] from state st: each character tagged with
\* what it is, and the state the reader ends in (halving keeps the
\* evaluation shallow)
RdScan(t, lo, hi, st) ==
    IF lo > hi THEN [out |-> <<>>, exit |-> st]
    ELSE IF lo = hi
    THEN LET r == RdStep(st, t[lo])
         IN  [out |-> << <<r.kind, t[lo]>> >>, exit |-> r.next]
    ELSE LET mid == (lo + hi) \div 2
             l == RdScan(t, lo, mid, st)
             r == RdScan(t, mid + 1, hi, l.exit)
         IN  [out |-> l.out \o r.out, exit |-> r.exit]

\* the positions of seq tagged with one of kinds, ascending
TagIdx(seq, kinds) ==
    LET S == {i \in 1..Len(seq) : seq[i][1] \in kinds}
    IN  [k \in 1..Cardinality(S) |->
            CHOOSE x \in S : Cardinality({y \in S : y < x}) = k - 1]

\* seq cut at the positions tagged with one of kinds
SplitAt(seq, kinds) ==
    LET ix == TagIdx(seq, kinds)
    IN  [k \in 1..(Len(ix) + 1) |->
            SubSeq(seq, IF k = 1 THEN 1 ELSE ix[k - 1] + 1,
                        IF k = Len(ix) + 1 THEN Len(seq) ELSE ix[k] - 1)]

IsChar(x) == x[1] = "char"

FieldText(seg) == LET cs == SelectSeq(seg, IsChar) IN [j \in 1..Len(cs) |-> cs[j][2]]

RowFields(seg) ==
    LET fs == SplitAt(seg, {"fieldend"}) IN [k \in 1..Len(fs) |-> FieldText(fs[k])]

\* the rows csv.reader yields for a file's text
ParseCsv(t) ==
    LET sc == RdScan(t, 1, Len(t), "start_record")
        ends == TagIdx(sc.out, {"recend", "blank"})
        segs == SplitAt(sc.out, {"recend", "blank"})
        open == sc.exit \notin {"start_record", "eat_crnl"}
        n == IF open THEN Len(segs) ELSE Len(segs) - 1
    IN  [k \in 1..n |->
            IF k <= Len(ends) /\ sc.out[ends[k]][1] = "blank" THEN <<>>
            ELSE RowFields(segs[k])]

IsPrefix(a, b) == Len(a) <= Len(b) /\ SubSeq(b, 1, Len(a)) = a

\* ================================================================== claims

\* C1: within one session (one parser on one driver), over any sequence of
\* parse_page calls, the click on the acceptCookies element is issued at
\* most once in total.
C1_AtMostOneClick == clicks <= 1

\* C2: when the "load more" control stops being displayed (or stops existing)
\* after N triggers, handle_pagination leaves its loop and returns, and it
\* never runs more than N + 1 iterations.
C2_PagerTerminates ==
    /\ [](pager.iters <= dom.N + 1)
    /\ [](pc = "pg_find" /\ dom.moreEnd \in {"hidden", "absent"}
            => <>(pc = "find_items"))

C2_Witness ==
    /\ pc = "find_items"
    /\ dom.N >= 1
    /\ pager.iters = dom.N + 1
    /\ pager.clicks = dom.N

\* the text of the header row, as it lies in the file
HeaderText ==
    <<"t", "i", "t", "l", "e", ",",
      "d", "e", "s", "c", "r", "i", "p", "t", "i", "o", "n", ",",
      "p", "r", "i", "c", "e", ",", "r", "a", "t", "i", "n", "g", ",",
      "n", "u", "m", "_", "o", "f", "_", "r", "e", "v", "i", "e", "w", "s",
      CR, LF>>

\* the fields of row r, read as text, are the fields of record p
RowHolds(r, p) ==
    /\ Len(r) = 5
    /\ r[1] = p.title
    /\ r[2] = p.description
    /\ FloatOf(r[3]) = [ok |-> TRUE, val |-> p.price]
    /\ IntOf(r[4]) = [ok |-> TRUE, val |-> p.rating]
    /\ IntOf(r[5]) = [ok |-> TRUE, val |-> p.num_of_reviews]

\* C3: for every record list given to create_csv_file, the file it leaves
\* holds the header row followed by one data row per record, in input
\* order, each row holding that record's five fields in the fixed order;
\* for the empty list the file is the header row and nothing else.
C3_CsvFile ==
    pc = "return" =>
        LET f == files[file_name]
            rows == ParseCsv(f.data)
            n == Len(list_of_products)
        IN  /\ f.exists
            /\ SubSeq(f.data, 1, Len(HeaderText)) = HeaderText
            /\ Len(rows) = n + 1
            /\ \A j \in 1..n : RowHolds(rows[j + 1], list_of_products[j])
            /\ (n = 0 => f.data = HeaderText)

C3_Witness ==
    /\ pc = "return"
    /\ Len(list_of_products) >= 2
    /\ list_of_products[1] # list_of_products[2]
    /\ NeedsQuote(list_of_products[2].title)

StepsOf(i) ==
    LET c == Categories[i]
    IN  << <<"print", c.category>>, <<"load", c.url>> >>
        \o (IF i = 1 THEN << <<"consent", c.url>> >> ELSE <<>>)
        \o << <<"pagination", c.url>>, <<"extraction", c.url>>,
              <<"serialization", c.file_name>>, <<"written", c.file_name>> >>

\* the steps of a run in which nothing fails
ExpectedLog ==
    StepsOf(1) \o StepsOf(2) \o StepsOf(3) \o StepsOf(4) \o StepsOf(5) \o StepsOf(6)

\* C4: get_all_products processes the six triples in list order, each in the
\* order print, load, consent (first triple only), pagination, extraction,
\* serialization, and no step of a triple begins before the previous
\* triple's file is written.
C4_StepOrder ==
    /\ IsPrefix(log, ExpectedLog)
    /\ (pc = "done" /\ error = NoError => log = ExpectedLog)

C4_Witness ==
    /\ pc = "done"
    /\ error = NoError
    /\ Len(log) = Len(ExpectedLog)
    /\ dom.cookie = "present"

Untouched(f) == f \in {NoFile, StaleFile}

\* C5: once a step of category i has raised, no URL of a later category is
\* loaded and no output file of a later category is created or written.
C5_FailureAborts ==
    error # NoError =>
        \A j \in (error.call + 1)..Len(Categories) :
            /\ Untouched(files[Categories[j].file_name])
            /\ \A k \in 1..Len(log) : log[k][2] \notin
                   {Categories[j].url, Categories[j].file_name, Categories[j].category}

C5_Witness ==
    /\ pc = "done"
    /\ error.call = 2
    /\ ~Untouched(files[Categories[1].file_name])

C6_Scoped ==
    /\ drv.acquires <= 1
    /\ drv.quits <= 1
    /\ (pc # "start" => drv.acquires = 1)
    /\ (pc \notin {"start", "done"} => drv.state = "open")
    /\ (pc = "done" => drv.state = "closed" /\ drv.quits = 1)

C6_NothingAfterRelease ==
    drv.state = "closed" => UNCHANGED <<dom, pager, clicks, log, files>>

\* C6: the browser session is acquired exactly once at the start of
\* get_all_products and released at the end of every run, successful or
\* failed; nothing is done with the page after the release.
C6_SessionReleased ==
    /\ []C6_Scoped
    /\ [][C6_NothingAfterRelease]_vars
    /\ <>(pc = "done")

C6_Witness ==
    /\ pc = "done"
    /\ error # NoError
    /\ error.call = 3
    /\ drv = [state |-> "closed", acquires |-> 1, quits |-> 1]

\* C7 as stated: check_accept_cookies returns normally to parse_page in every
\* case; consent handling never aborts the run.
C7_NeverFatal == error.in # "check_accept_cookies"

\* the lookup: absent, the handler returns with no click; present, it
\* goes on to the click
C7_LookupOutcome ==
    pc = "ck_find" =>
        IF dom.cookie = "absent"
        THEN pc' = "pg_find" /\ error' = NoError /\ clicks' = clicks
             /\ cookies_accepted'
        ELSE pc' = "ck_click" /\ error' = NoError

\* the click: issued once, and the handler returns unless the click raised
C7_ClickOutcome ==
    pc = "ck_click" =>
        /\ clicks' = clicks + 1
        /\ (dom.cookie # "blocked" =>
                pc' = "pg_find" /\ error' = NoError /\ cookies_accepted')

\* C7, amended: an absent consent control is not fatal. check_accept_cookies
\* looks the control up; absent, it issues no click and returns to
\* parse_page, which goes on to pagination; present, it clicks it, and
\* returns likewise when the click succeeds. Only an exception of the click
\* itself leaves the handler, and then the flag stays unset.
C7_AbsenceNotFatal ==
    /\ [](error.in = "check_accept_cookies" =>
            /\ error.type # "NoSuchElementException"
            /\ dom.cookie = "blocked"
            /\ ~cookies_accepted)
    /\ [][C7_LookupOutcome]_vars
    /\ [][C7_ClickOutcome]_vars

C7_Witness ==
    /\ pc = "pg_find"
    /\ pager.iters = 0
    /\ calls = 1
    /\ dom.cookie = "absent"
    /\ cookies_accepted
    /\ clicks = 0

\* a container every lookup of which succeeds: a title, a description, a
\* price of one currency character and a decimal number, a review text that
\* starts with an integer
WellFormed(c) ==
    /\ c.title # <<>>
    /\ c.description # <<>>
    /\ c.price # <<>>
    /\ c.price[1] # <<>>
    /\ FloatOf(Tail(c.price[1])).ok
    /\ c.reviews # <<>>
    /\ Split(c.reviews[1]) # <<>>
    /\ IntOf(Split(c.reviews[1])[1]).ok

\* row r and record p carry the fields of container c
Carries(r, p, c) ==
    /\ RowHolds(r, p)
    /\ r[1] = c.title[1]
    /\ r[2] = c.description[1]
    /\ FloatOf(r[3]).val = FloatOf(Tail(c.price[1])).val
    /\ IntOf(r[4]).val = c.stars
    /\ IntOf(r[5]).val = IntOf(Split(c.reviews[1])[1]).val

\* the row of the container AsusX, as text fields
AsusXRow ==
    << <<"A", "s", "u", "s", " ", "X">>, <<"1", "5", "i", "n">>,
       <<"2", "9", "9", ".", "0">>, <<"4">>, <<"1", "2">> >>

\* C8: for a loaded page exposing k well-formed containers, parse_page
\* writes the header row and exactly k data rows, row j carrying the fields
\* of the j-th container (title attribute, description text, price without
\* its currency character, number of star markers, leading integer of the
\* review text), and returns the same k records in the same order.
C8_EndToEnd ==
    LET ex == Exposed(dom)
        k == Len(ex)
    IN  (\A j \in 1..k : WellFormed(ex[j])) =>
            /\ error.in \notin Getters
            /\ pc = "return" =>
                LET rows == ParseCsv(files[file_name].data)
                IN  /\ Len(rows) = k + 1
                    /\ rows[1] = HeaderRow
                    /\ Len(ret) = k
                    /\ \A j \in 1..k :
                        /\ Carries(rows[j + 1], ret[j], ex[j])
                        /\ (ex[j] = AsusX => rows[j + 1] = AsusXRow)

C8_Witness ==
    /\ pc = "return"
    /\ Len(ret) = 3
    /\ Exposed(dom) = <<AsusX, Tricky, AsusX>>
    /\ dom.N >= 1

\* a trigger is issued only on a control found and displayed
C9_TriggerOnlyWhenShown ==
    pager'.clicks > pager.clicks =>
        /\ pc = "pg_click"
        /\ ControlFound(dom) /\ ControlDisplayed(dom)
        /\ pager'.clicks = pager.clicks + 1

\* an iteration goes on to the trigger when the control is found and
\* displayed, and otherwise leaves the loop with no trigger and no exception
C9_IterationOutcome ==
    pc \in {"pg_find", "pg_displayed"} =>
        IF ControlFound(dom) /\ ControlDisplayed(dom)
        THEN pc' \in {"pg_displayed", "pg_click"}
        ELSE /\ pc' \in {"pg_displayed", "pg_sleep"}
             /\ (pc = "pg_displayed" => pc' = "pg_sleep")
             /\ error' = NoError
             /\ pager'.clicks = pager.clicks

\* outside the loop the pager issues nothing
C9_NoTriggerAfterLoop ==
    pc \notin {"pg_find", "pg_displayed", "pg_click", "get"} => pager' = pager

\* C9: the pagination control is triggered in an iteration exactly when that
\* iteration found it and found it displayed; the first iteration that does
\* not ends the loop with no trigger and no exception, so the pager has
\* issued exactly N triggers when it leaves the loop, and none after.
C9_PagerTriggers ==
    /\ [](pc \in {"pg_sleep", "find_items"} =>
            /\ pager.clicks = dom.N
            /\ ~(ControlFound(dom) /\ ControlDisplayed(dom)))
    /\ [][C9_TriggerOnlyWhenShown]_vars
    /\ [][C9_IterationOutcome]_vars
    /\ [][C9_NoTriggerAfterLoop]_vars

C9_Witness ==
    /\ pc = "pg_sleep"
    /\ dom.N >= 1
    /\ pager.clicks = dom.N
    /\ dom.moreEnd = "hidden"
    /\ pager.iters = dom.N + 1

\* a file changes only inside create_csv_file, with every container
\* extracted and nothing raised, and only the file of this call
C10_WritesOnlyAfterExtraction ==
    files' # files =>
        /\ pc \in {"csv_open", "csv_header", "csv_row"}
        /\ error = NoError
        /\ Len(list_of_products) = Len(items)
        /\ \A n \in FileNames \ {file_name} : files'[n] = files[n]

\* C10: when the extraction of a container fails, the output file of that
\* category is neither created nor truncated nor written (a file changes
\* only in create_csv_file, entered once every container is extracted), and
\* the files of earlier categories stay as they are.
C10_NoPartialOutput ==
    /\ [](error.in \in Getters => Untouched(files[file_name]))
    /\ [][C10_WritesOnlyAfterExtraction]_vars

C10_Witness ==
    /\ error.in \in Getters
    /\ error.call = 2
    /\ Len(list_of_products) = 1
    /\ Len(items) = 2
    /\ ~Untouched(files[Categories[1].file_name])
    /\ Untouched(files[file_name])

====
